---- MODULE Spec2Model ----
(***************************************************************************)
(* A model of BeagleBoneImageClient (DLP2000EVM_drivers/beagle_transfer.py) *)
(* as a state machine: one session object, the device it talks to (remote   *)
(* directory, viewer processes), the local temporary directory, and a log   *)
(* of the network calls the operation in progress has issued.               *)
(*                                                                          *)
(* Every method of the class is an operator from a session record to a      *)
(* session record, so that the composite methods (preset_mask, stop) are    *)
(* the composition the source writes. A raised exception is the field exc;  *)
(* a statement after a raise is skipped.                                    *)
(***************************************************************************)
EXTENDS Integers, Sequences, FiniteSets, TLC

VARIABLES
    ssh,        \* self.ssh: None or the SSHClient object (its identity)
    sftp,       \* self.sftp: None or the SFTPClient, named by the SSHClient it was opened on
    cl,         \* every SSHClient created so far: its transport's condition
    ch,         \* every SFTP channel opened so far: its condition
    nextId,     \* number of SSHClient objects created so far
    tmpfiles,   \* names of the bbb_img_*.bmp files in the local temporary directory
    made,       \* number of names tempfile has handed out so far
    dirExists,  \* the remote directory exists on the device
    files,      \* the *.bmp files of the remote directory: their modification times
                \* (an upload is stamped with the ordinal of its temporary file: a
                \* later upload is newer)
    viewers,    \* number of feh processes running on the device
    last,       \* the operation that ran last: name, arguments, exception, return value
    calls,      \* the network calls that operation issued, in order
    cfg,        \* width, height, pitch_um of the session
    mask        \* the last request to generate_mask and its outcome

vars == <<ssh, sftp, cl, ch, nextId, tmpfiles, made, dirExists, files, viewers,
          last, calls, cfg, mask>>

-----------------------------------------------------------------------------
(* Bounds *)

MaxClients == 2      \* SSHClient objects one behaviour may create
MaxNames == 2        \* temporary files one behaviour may create
MaxViewers == 2      \* feh processes alive at once
MaxDim == 5          \* largest width or height of a pure mask request
MaxRadius == 7       \* largest |radius_um| of a pure mask request
MaxPitch == 3        \* largest pitch_um of a pure mask request
MaxTiles == 2        \* whole tiles along one side of a grid request

None == 0
Clients == 1..MaxClients
Names == 1..MaxNames          \* bbb_img_<n>.bmp
ForeignName == 0              \* a *.bmp in the remote directory this client did not upload
AllNames == Names \cup {ForeignName}
NoFile == -1                  \* files[n] of a name that is not there
remote_path == "temp_images/"

-----------------------------------------------------------------------------
(* Pixel buffers: numpy arrays and the other values a caller can pass *)

Px(h, w) == (0..(h - 1)) \X (0..(w - 1))

\* a slip: the shape as (w, h)
Array_transposed(h, w, px) ==
    [isArray |-> TRUE, dtype |-> "uint8", shape |-> <<w, h>>, px |-> px]

Array(h, w, px) == [isArray |-> TRUE, dtype |-> "uint8", shape |-> <<h, w>>, px |-> px]
NoArray == [isArray |-> FALSE, dtype |-> "none", shape |-> <<>>, px |-> <<>>]

\* radius_um: Optional[float]; <<>> is None, <<r>> is the number r
NoRadius == <<>>

\* a slip: floor division (radius_um // self.pitch_um) instead of int()
IntTrunc_floor(a, b) == a \div b

\* int(radius_um / self.pitch_um): Python's int() truncates toward zero
IntTrunc(a, b) == IF a >= 0 THEN a \div b ELSE -((-a) \div b)

\* range(0, n, step)
Range(n, step) == {i \in 0..(n - 1) : i % step = 0}

cell == 32

\* a slip: a tile that does not fit whole into the array is left out
GridPx_whole(h, w) ==
    [p \in Px(h, w) |->
        IF \E y \in Range(h, cell), x \in Range(w, cell) :
              /\ ((x \div cell) + (y \div cell)) % 2 = 0
              /\ y + cell <= h /\ x + cell <= w
              /\ y <= p[1] /\ p[1] < y + cell
              /\ x <= p[2] /\ p[2] < x + cell
        THEN 255 ELSE 0]

\* the grid branch: arr[y:y+cell, x:x+cell] = 255 for the even tiles; a slice is
\* clipped at the array's edge
GridPx(h, w) ==
    [p \in Px(h, w) |->
        IF \E y \in Range(h, cell), x \in Range(w, cell) :
              /\ ((x \div cell) + (y \div cell)) % 2 = 0
              /\ y <= p[1] /\ p[1] < y + cell
              /\ x <= p[2] /\ p[2] < x + cell
        THEN 255 ELSE 0]

\* the circle branch: mask = (yy - cy)**2 + (xx - cx)**2 <= r_px**2
CirclePx(h, w, r_px) ==
    LET cy == h \div 2
        cx == w \div 2
    IN  [p \in Px(h, w) |->
            IF (p[1] - cy) * (p[1] - cy) + (p[2] - cx) * (p[2] - cx) <= r_px * r_px
            THEN 255 ELSE 0]

\* generate_mask(mask_type, radius_um) under the configuration c
generate_mask(c, mask_type, radius_um) ==
    LET w == c.width
        h == c.height
    IN  IF mask_type = "white"
        THEN [exc |-> "none", arr |-> Array(h, w, [p \in Px(h, w) |-> 255])]
        ELSE IF mask_type = "black"
        THEN [exc |-> "none", arr |-> Array(h, w, [p \in Px(h, w) |-> 0])]
        ELSE IF mask_type = "grid"
        THEN [exc |-> "none", arr |-> Array(h, w, GridPx(h, w))]
        ELSE IF mask_type = "circle"
        THEN IF radius_um = NoRadius
             THEN [exc |-> "ValueError", arr |-> NoArray]
             ELSE [exc |-> "none",
                   arr |-> Array(h, w, CirclePx(h, w, IntTrunc(radius_um[1], c.pitch_um)))]
        ELSE [exc |-> "ValueError", arr |-> NoArray]

-----------------------------------------------------------------------------
(* The session record the methods work on, and what the network answers *)

\* os.path.basename(temp_path) of the n-th name tempfile hands out; the foreign file
FileName(n) == IF n = ForeignName THEN "other.bmp" ELSE "bbb_img_" \o ToString(n) \o ".bmp"

NoPath == ""
\* f"{self.remote_path}{filename}"
Path(n) == remote_path \o FileName(n)

\* the remote commands: they have an exit status and a stderr
Commands == {"move_cursor", "ls", "feh", "pkill", "rm"}

\* the exception the call k raises in the caller under the answers e, or "none":
\* exec_command returns without waiting for the command
Outcome(s, k, e) ==
    CASE k = "connect" -> IF e.connOK THEN "none" ELSE "ConnectError"
      [] k = "open_sftp" -> IF e.sftpOK THEN "none" ELSE "SSHException"
      [] k = "stat" -> IF s.dirExists /\ e.stat = "ok" THEN "none"
                       ELSE IF s.dirExists /\ e.stat = "ssh" THEN "SSHException"
                       ELSE "IOError"
      [] k = "mkdir" -> IF ~s.dirExists /\ e.mkdirOK THEN "none" ELSE "IOError"
      [] k = "put" -> IF e.putOK THEN "none" ELSE "IOError"
      [] OTHER -> "none"

\* one network call of the log: what, over which connection, with which argument,
\* the remote exit status and stderr text (of a command), whether _connect had
\* found that connection active in this operation, and what the call raised
Call(s, k, via, arg, e) ==
    [k |-> k, via |-> via, arg |-> arg,
     rc |-> IF k \in Commands THEN e.rc ELSE 0,
     err |-> IF k \in Commands THEN e.err ELSE <<>>,
     checked |-> s.ver = via,
     raised |-> Outcome(s, k, e)]

Issue(s, c) == [s EXCEPT !.calls = Append(@, c)]

Raise(s, x, m) == [s EXCEPT !.exc = x, !.msg = m]

\* "x = v; B(x)": v is computed once and B works on its value
Bind(v, B(_)) == [x \in {v} |-> B(x)][CHOOSE x \in {v} : TRUE]

\* the network between two operations of a call: the transport of self.ssh dies before
\* the e.drop-th check of the operation
Observe(s, e) ==
    IF s.nconn + 1 = e.drop /\ s.ssh # None /\ s.cl[s.ssh] = "active"
    THEN [s EXCEPT !.nconn = @ + 1, !.cl[s.ssh] = "stale"]
    ELSE [s EXCEPT !.nconn = @ + 1]

\* a slip: the condition of line 63 always true, every call opens a new connection
IsActive_never(s) == FALSE

\* self.ssh and self.ssh.get_transport() and self.ssh.get_transport().is_active()
IsActive(s) == s.ssh # None /\ s.cl[s.ssh] = "active"

\* self.ssh.exec_command(cmd): the command leaves only over a live transport
exec_command(s, k, arg, e) ==
    IF s.ssh = None THEN Raise(s, "AttributeError", <<>>)
    ELSE IF s.cl[s.ssh] # "active" THEN Raise(s, "SSHException", <<>>)
    ELSE Issue(s, Call(s, k, s.ssh, arg, e))

_warp_cursor(s, e) == exec_command(s, "move_cursor", NoPath, e)

\* line 64: self.ssh = paramiko.SSHClient(), a new object
NewClient(s) ==
    [s EXCEPT !.ssh = s.nextId + 1, !.nextId = s.nextId + 1,
              !.cl[s.nextId + 1] = "unconnected"]

\* a slip: the cursor is warped on every call, not only after a fresh connection
_connect_rewarp(s, e) ==
    IF s.exc # "none" THEN s
    ELSE Bind(Observe(s, e), LAMBDA s0 :
         IF IsActive(s0) THEN _warp_cursor([s0 EXCEPT !.ver = s0.ssh], e)
         ELSE Bind(NewClient(s0), LAMBDA s1 :
              Bind(Issue(s1, Call(s1, "connect", s1.ssh, NoPath, e)), LAMBDA s2 :
              IF Outcome(s2, "connect", e) # "none"
              THEN Raise(s2, Outcome(s2, "connect", e), <<>>)
              ELSE Bind(Issue([s2 EXCEPT !.cl[s2.ssh] = "active"],
                              Call(s2, "open_sftp", s2.ssh, NoPath, e)), LAMBDA s3 :
                   IF Outcome(s3, "open_sftp", e) # "none"
                   THEN Raise(s3, Outcome(s3, "open_sftp", e), <<>>)
                   ELSE _warp_cursor([s3 EXCEPT !.sftp = s3.ssh, !.ch[s3.ssh] = "open",
                                                !.ver = s3.ssh], e)))))

_connect(s, e) ==
    IF s.exc # "none" THEN s
    ELSE Bind(Observe(s, e), LAMBDA s0 :
         IF IsActive(s0) THEN [s0 EXCEPT !.ver = s0.ssh]
         ELSE Bind(NewClient(s0), LAMBDA s1 :
              Bind(Issue(s1, Call(s1, "connect", s1.ssh, NoPath, e)), LAMBDA s2 :
              IF Outcome(s2, "connect", e) # "none"
              THEN Raise(s2, Outcome(s2, "connect", e), <<>>)
              ELSE Bind(Issue([s2 EXCEPT !.cl[s2.ssh] = "active"],
                              Call(s2, "open_sftp", s2.ssh, NoPath, e)), LAMBDA s3 :
                   IF Outcome(s3, "open_sftp", e) # "none"
                   THEN Raise(s3, Outcome(s3, "open_sftp", e), <<>>)
                   ELSE _warp_cursor([s3 EXCEPT !.sftp = s3.ssh, !.ch[s3.ssh] = "open",
                                                !.ver = s3.ssh], e)))))

\* lines 74-76
CloseSftp(s) ==
    IF s.sftp # None
    THEN [s EXCEPT !.ch[s.sftp] = IF @ = "open" THEN "closed" ELSE @, !.sftp = None]
    ELSE s

\* a slip: self.ssh is closed but not set to None
close_connection_keeps_ssh(s) ==
    Bind(CloseSftp(s), LAMBDA s1 :
    IF s1.ssh # None
    THEN [s1 EXCEPT !.cl[s1.ssh] = "closed"]
    ELSE s1)

close_connection(s) ==
    Bind(CloseSftp(s), LAMBDA s1 :
    IF s1.ssh # None
    THEN [s1 EXCEPT !.cl[s1.ssh] = "closed", !.ssh = None]
    ELSE s1)

-----------------------------------------------------------------------------
(* Image Uploader *)

\* a request on self.sftp leaves only over an open channel of a live transport
SftpUsable(s) ==
    s.sftp # None /\ s.ch[s.sftp] = "open" /\ s.cl[s.sftp] = "active"

\* Image.fromarray(image_array).save(temp_path, format='BMP'): PIL writes a BMP from a
\* 2-D array (mode L) and from 3 or 4 channels (RGB, RGBA); another channel count raises
Savable(buf) == Len(buf.shape) = 2 \/ buf.shape[3] \in {3, 4}

\* lines 89-102: the exception the validation raises, or "none"
Validate(c, buf) ==
    IF ~buf.isArray THEN "TypeError"
    ELSE IF buf.dtype # "uint8" THEN "ValueError"
    ELSE IF Len(buf.shape) \notin {2, 3} THEN "ValueError"
    ELSE IF <<buf.shape[2], buf.shape[1]>> # <<c.width, c.height>> THEN "ValueError"
    ELSE "none"

\* a slip: "except Exception", mkdir after any failure of stat
EnsureDir_any(s, e) ==
    IF s.sftp = None THEN Raise(s, "AttributeError", <<>>)
    ELSE IF ~SftpUsable(s) THEN Raise(s, "IOError", <<>>)
    ELSE Bind(Issue(s, Call(s, "stat", s.sftp, NoPath, e)), LAMBDA s1 :
         IF Outcome(s1, "stat", e) = "none" THEN s1
         ELSE Bind(Issue(s1, Call(s1, "mkdir", s1.sftp, NoPath, e)), LAMBDA s2 :
              IF Outcome(s2, "mkdir", e) = "none"
              THEN [s2 EXCEPT !.dirExists = TRUE]
              ELSE Raise(s2, Outcome(s2, "mkdir", e), <<>>)))

\* lines 111-114: self.sftp.stat(self.remote_path), and mkdir when it raises IOError
EnsureDir(s, e) ==
    IF s.sftp = None THEN Raise(s, "AttributeError", <<>>)
    ELSE IF ~SftpUsable(s) THEN Raise(s, "IOError", <<>>)
    ELSE Bind(Issue(s, Call(s, "stat", s.sftp, NoPath, e)), LAMBDA s1 :
         IF Outcome(s1, "stat", e) = "none" THEN s1
         ELSE IF Outcome(s1, "stat", e) # "IOError"
         THEN Raise(s1, Outcome(s1, "stat", e), <<>>)
         ELSE Bind(Issue(s1, Call(s1, "mkdir", s1.sftp, NoPath, e)), LAMBDA s2 :
              IF Outcome(s2, "mkdir", e) = "none"
              THEN [s2 EXCEPT !.dirExists = TRUE]
              ELSE Raise(s2, Outcome(s2, "mkdir", e), <<>>)))

\* lines 115-117: self.sftp.put(temp_path, remote_file)
Put(s, e, n, buf) ==
    IF s.exc # "none" THEN s
    ELSE Bind(Issue(s, Call(s, "put", s.sftp, Path(n), e)), LAMBDA s1 :
         IF Outcome(s1, "put", e) = "none"
         THEN [s1 EXCEPT !.files[n] = n,
                         !.up = Append(@, [name |-> n, px |-> buf.px])]
         ELSE Raise(s1, Outcome(s1, "put", e), <<>>))

\* lines 105-106: the temporary file, under a name no file has had
NewTemp(s) ==
    [s EXCEPT !.tmpfiles = @ \cup {s.made + 1}, !.made = s.made + 1,
              !.tmp = Append(@, s.made + 1)]

send_image(s, e, buf) ==
    Bind(_connect(s, e), LAMBDA s1 :
    IF s1.exc # "none" THEN s1
    ELSE IF Validate(s1.cfg, buf) # "none" THEN Raise(s1, Validate(s1.cfg, buf), <<>>)
    ELSE Bind(NewTemp(s1), LAMBDA s2 :
         IF ~Savable(buf) THEN Raise(s2, "SaveError", <<>>)
         ELSE Bind(EnsureDir(s2, e), LAMBDA s3 :
              Bind(Put(s3, e, s2.made, buf), LAMBDA s4 :
              Bind([s4 EXCEPT !.tmpfiles = @ \ {s2.made}], LAMBDA s5 :
              IF s5.exc # "none" THEN s5
              ELSE [s5 EXCEPT !.ret = Path(s2.made)])))))

-----------------------------------------------------------------------------
(* Display Controller *)

Present(s) == {n \in AllNames : s.files[n] # NoFile}

\* n is listed before m by ls -t: newer first, equal times by name
Before(s, n, m) ==
    \/ s.files[n] > s.files[m]
    \/ s.files[n] = s.files[m] /\ n <= m

\* the first name ls -t lists of the set S
First(s, S) == CHOOSE n \in S : \A m \in S : Before(s, n, m)

RECURSIVE LsT(_, _)
\* the output of "ls -t <remote_path>*.bmp": one path a line
LsT(s, S) ==
    IF S = {} THEN <<>>
    ELSE <<Path(First(s, S)), "\n">> \o LsT(s, S \ {First(s, S)})

\* str.split(): the tokens between runs of whitespace
Split(out) == SelectSeq(out, LAMBDA w : w # "\n" /\ w # " ")

_get_latest_remote_list(s, e) ==
    Bind(_connect(s, e), LAMBDA s1 :
    IF s1.exc # "none" THEN s1
    ELSE Bind(exec_command(s1, "ls", NoPath, e), LAMBDA s2 :
         IF s2.exc # "none" THEN s2
         ELSE [s2 EXCEPT !.listing = Split(LsT(s2, Present(s2)))]))

\* "feh -F <remote_file> &" on the device: a viewer stays up when the file is there
Feh(s, remote_file) ==
    IF \E n \in Present(s) : Path(n) = remote_file
    THEN [s EXCEPT !.viewers = @ + 1]
    ELSE s

\* lines 184-188 with a slip: files[-1], the oldest entry of the listing
Target_oldest(s, e, remote_file) ==
    IF remote_file # NoPath THEN [s EXCEPT !.target = remote_file]
    ELSE Bind(_get_latest_remote_list(s, e), LAMBDA s1 :
         IF s1.exc # "none" THEN s1
         ELSE IF s1.listing = <<>> THEN Raise(s1, "FileNotFoundError", <<>>)
         ELSE [s1 EXCEPT !.target = s1.listing[Len(s1.listing)]])

\* lines 184-188: the file to display
Target(s, e, remote_file) ==
    IF remote_file # NoPath THEN [s EXCEPT !.target = remote_file]
    ELSE Bind(_get_latest_remote_list(s, e), LAMBDA s1 :
         IF s1.exc # "none" THEN s1
         ELSE IF s1.listing = <<>> THEN Raise(s1, "FileNotFoundError", <<>>)
         ELSE [s1 EXCEPT !.target = s1.listing[1]])

show_image(s, e, remote_file) ==
    Bind(_connect(s, e), LAMBDA s1 :
    IF s1.exc # "none" THEN s1
    ELSE Bind(Target(s1, e, remote_file), LAMBDA s2 :
         IF s2.exc # "none" THEN s2
         ELSE Bind(exec_command(s2, "feh", s2.target, e), LAMBDA s3 :
              IF s3.exc # "none" THEN s3
              ELSE [Feh(s3, s3.target) EXCEPT !.ret = NoPath])))

close_image(s, e) ==
    Bind(_connect(s, e), LAMBDA s1 :
    IF s1.exc # "none" THEN s1
    ELSE Bind(exec_command(s1, "pkill", NoPath, e), LAMBDA s2 :
         IF s2.exc # "none" THEN s2
         ELSE [s2 EXCEPT !.viewers = 0, !.ret = NoPath]))

RECURSIVE Strip(_)
\* str.strip(): leading and trailing whitespace removed
Strip(txt) ==
    IF txt = <<>> THEN <<>>
    ELSE IF Head(txt) \in {" ", "\n"} THEN Strip(Tail(txt))
    ELSE IF txt[Len(txt)] \in {" ", "\n"} THEN Strip(SubSeq(txt, 1, Len(txt) - 1))
    ELSE txt

\* lines 169-174: rm, and what its exit status leads to
Rm(s, e) ==
    Bind(exec_command(s, "rm", NoPath, e), LAMBDA s2 :
    IF s2.exc # "none" THEN s2
    ELSE IF e.rc # 0
    THEN Raise(s2, "RuntimeError", <<"Failed to flush remote images: ">> \o Strip(e.err))
    ELSE [s2 EXCEPT !.files = [n \in AllNames |-> NoFile], !.ret = NoPath])

\* a slip: the command is sent without self._connect() first
flush_remote_images_unchecked(s, e) == Rm(s, e)

\* a slip: the exit status is read and dropped, as show_image does
flush_remote_images_silent(s, e) ==
    Bind(_connect(s, e), LAMBDA s1 :
    IF s1.exc # "none" THEN s1
    ELSE Bind(exec_command(s1, "rm", NoPath, e), LAMBDA s2 :
         IF s2.exc # "none" \/ e.rc # 0 THEN s2
         ELSE [s2 EXCEPT !.files = [n \in AllNames |-> NoFile], !.ret = NoPath]))

flush_remote_images(s, e) ==
    Bind(_connect(s, e), LAMBDA s1 :
    IF s1.exc # "none" THEN s1
    ELSE Rm(s1, e))

preset_mask(s, e, mask_type, radius_um) ==
    Bind(generate_mask(s.cfg, mask_type, radius_um), LAMBDA m :
    IF m.exc # "none" THEN Raise(s, m.exc, <<>>)
    ELSE Bind(send_image(s, e, m.arr), LAMBDA s1 :
         IF s1.exc # "none" THEN s1
         ELSE Bind(show_image(s1, e, NoPath), LAMBDA s2 :
              IF s2.exc # "none" THEN s2
              ELSE [s2 EXCEPT !.ret = NoPath])))

stop(s, e) ==
    Bind(close_image(s, e), LAMBDA s1 :
    IF s1.exc # "none" THEN s1
    ELSE Bind(preset_mask(s1, e, "black", NoRadius), LAMBDA s2 :
         IF s2.exc # "none" THEN s2
         ELSE show_image(s2, e, s2.ret)))

-----------------------------------------------------------------------------
(* The state machine *)

\* what the network and the device answer during one operation
Quiet == [drop |-> 0, connOK |-> TRUE, sftpOK |-> TRUE, stat |-> "ok", mkdirOK |-> TRUE,
          putOK |-> TRUE, rc |-> 0, err |-> <<>>]

\* the session as the operation finds it
PreStatus == IF ssh = None THEN "closed" ELSE cl[ssh]

ErrTexts == {<<"e">>, <<" ", "e", "\n">>}

\* the answers to a connection attempt
ConnAnswers == {<<TRUE, TRUE>>, <<TRUE, FALSE>>, <<FALSE, TRUE>>}

\* the session is found active, or a connection is attempted and answered; R is the
\* exit statuses of the commands
NetEnv(R) ==
    {[Quiet EXCEPT !.connOK = a[1], !.sftpOK = a[2], !.rc = r] :
        a \in IF PreStatus = "active" THEN {<<TRUE, TRUE>>} ELSE ConnAnswers,
        r \in R}

\* the transport dies during the operation, before its k-th check (k in K), and the
\* connection attempt that follows is answered
DropEnv(K) ==
    IF PreStatus # "active" THEN {}
    ELSE {[Quiet EXCEPT !.drop = d, !.connOK = a[1], !.sftpOK = a[2]] :
            d \in K, a \in ConnAnswers}

\* the answers to the transfer requests
XferEnv(E) ==
    {[e EXCEPT !.stat = x[1], !.mkdirOK = x[2], !.putOK = x[3]] :
        e \in E,
        x \in IF dirExists
              THEN {<<"ok", TRUE, TRUE>>, <<"ok", TRUE, FALSE>>, <<"io", TRUE, TRUE>>,
                    <<"ssh", TRUE, TRUE>>}
              ELSE {<<"ok", TRUE, TRUE>>, <<"ok", TRUE, FALSE>>, <<"ok", FALSE, TRUE>>}}

Configs == {[width |-> 3, height |-> 2, pitch_um |-> 2]}

\* the values a caller passes to send_image
Buffers(c) ==
    LET black == [p \in Px(c.height, c.width) |-> 0]
        arr == Array(c.height, c.width, black)
    IN  {arr,
         [arr EXCEPT !.shape = <<c.height, c.width, 3>>],
         [arr EXCEPT !.shape = <<c.height, c.width, 2>>],
         [arr EXCEPT !.shape = <<c.width, c.height>>],
         [arr EXCEPT !.shape = <<c.width>>],
         [arr EXCEPT !.shape = <<c.height, c.width, 3, 1>>],
         [arr EXCEPT !.dtype = "float64"],
         NoArray}

\* the requests a caller passes to preset_mask
Presets == {<<"white", NoRadius>>, <<"black", NoRadius>>, <<"grid", NoRadius>>,
            <<"circle", <<0>> >>, <<"circle", NoRadius>>, <<"unknown", NoRadius>>}

\* the session at the start of an operation
Self ==
    [ssh |-> ssh, sftp |-> sftp, cl |-> cl, ch |-> ch, nextId |-> nextId,
     tmpfiles |-> tmpfiles, made |-> made, dirExists |-> dirExists, files |-> files,
     viewers |-> viewers, cfg |-> cfg,
     calls |-> <<>>, exc |-> "none", msg |-> <<>>, ret |-> NoPath, listing |-> <<>>,
     tmp |-> <<>>, up |-> <<>>, ver |-> None, nconn |-> 0, target |-> NoPath]

\* connections an operation may have to open under the answers e
Room(e) ==
    nextId + (IF ssh # None /\ cl[ssh] = "active" THEN 0 ELSE 1)
           + (IF e.drop > 1 THEN 1 ELSE 0) <= MaxClients

\* the caller is between two calls: the session is used by one thread, a call starts
\* when the last one has returned
Ready == last.op = "idle"

Done(s, op, buf, kind, radius, path) ==
    /\ s.viewers <= MaxViewers
    /\ ssh' = s.ssh
    /\ sftp' = s.sftp
    /\ cl' = s.cl
    /\ ch' = s.ch
    /\ nextId' = s.nextId
    /\ tmpfiles' = s.tmpfiles
    /\ made' = s.made
    /\ dirExists' = s.dirExists
    /\ files' = s.files
    /\ viewers' = s.viewers
    /\ calls' = s.calls
    /\ last' = [op |-> op, pre |-> PreStatus, exc |-> s.exc, msg |-> s.msg, ret |-> s.ret,
                listing |-> s.listing, tmp |-> s.tmp, up |-> s.up,
                buf |-> buf, kind |-> kind, radius |-> radius, path |-> path]
    /\ UNCHANGED <<cfg, mask>>

\* the state after __init__ has returned under the configuration c: a constructor
\* that raises leaves no object. d: the remote directory is already there; r: the exit
\* status of the cursor warp
Constructed(c, d, r) ==
    LET blank == [ssh |-> None, sftp |-> None,
                  cl |-> [i \in Clients |-> "unused"], ch |-> [i \in Clients |-> "none"],
                  nextId |-> 0, tmpfiles |-> {}, made |-> 0, dirExists |-> d,
                  files |-> [n \in AllNames |-> NoFile], viewers |-> 0,
                  cfg |-> c, calls |-> <<>>, exc |-> "none", msg |-> <<>>,
                  ret |-> NoPath, listing |-> <<>>, tmp |-> <<>>, up |-> <<>>,
                  ver |-> None, nconn |-> 0, target |-> NoPath]
    IN  \E s \in {_connect(blank, [Quiet EXCEPT !.rc = r])} :
        /\ ssh = s.ssh
        /\ sftp = s.sftp
        /\ cl = s.cl
        /\ ch = s.ch
        /\ nextId = s.nextId
        /\ tmpfiles = s.tmpfiles
        /\ made = s.made
        /\ dirExists = s.dirExists
        /\ files = s.files
        /\ viewers = s.viewers
        /\ calls = s.calls
        /\ cfg = c
        /\ last = [op |-> "__init__", pre |-> "closed", exc |-> s.exc, msg |-> s.msg,
                   ret |-> s.ret, listing |-> s.listing, tmp |-> s.tmp, up |-> s.up,
                   buf |-> NoArray, kind |-> "none", radius |-> NoRadius,
                   path |-> NoPath]

\* no request to generate_mask yet
NoMask == [kind |-> "none", radius |-> NoRadius, out |-> [exc |-> "none", arr |-> NoArray],
           prevKind |-> "none", prevRadius |-> NoRadius,
           prevOut |-> [exc |-> "none", arr |-> NoArray]]

Init ==
    /\ \E c \in Configs, d \in BOOLEAN, r \in {0, 1} : Constructed(c, d, r)
    /\ mask = NoMask

SendImage ==
    /\ Ready
    /\ \E buf \in Buffers(cfg), e \in XferEnv(NetEnv({0})) :
        /\ Room(e)
        /\ made < MaxNames
        /\ \E s \in {send_image(Self, e, buf)} :
              Done(s, "send_image", buf, "none", NoRadius, NoPath)

PresetMask ==
    /\ Ready
    /\ \E q \in Presets, e \in XferEnv(NetEnv({0})) \cup DropEnv({2}) :
        /\ Room(e)
        /\ made < MaxNames
        /\ \E s \in {preset_mask(Self, e, q[1], q[2])} :
              Done(s, "preset_mask", NoArray, q[1], q[2], NoPath)

ShowImage ==
    /\ Ready
    /\ \E path \in {NoPath} \cup {Path(n) : n \in AllNames}, e \in NetEnv({0, 1}) :
        /\ Room(e)
        /\ \E s \in {show_image(Self, e, path)} :
              Done(s, "show_image", NoArray, "none", NoRadius, path)

CloseImage ==
    /\ Ready
    /\ \E e \in NetEnv({0, 1}) :
        /\ Room(e)
        /\ \E s \in {close_image(Self, e)} :
              Done(s, "close_image", NoArray, "none", NoRadius, NoPath)

\* rm exits 0, or nonzero with a text on stderr
FlushEnv == NetEnv({0}) \cup {[x EXCEPT !.err = txt] : x \in NetEnv({1}), txt \in ErrTexts}

FlushRemoteImages ==
    /\ Ready
    /\ \E e \in FlushEnv :
        /\ Room(e)
        /\ \E s \in {flush_remote_images(Self, e)} :
              Done(s, "flush_remote_images", NoArray, "none", NoRadius, NoPath)

ListRemoteImages ==
    /\ Ready
    /\ \E e \in NetEnv({0, 1}) :
        /\ Room(e)
        /\ \E s \in {_get_latest_remote_list(Self, e)} :
              Done(s, "_get_latest_remote_list", NoArray, "none", NoRadius, NoPath)

Stop ==
    /\ Ready
    /\ \E e \in XferEnv(NetEnv({0})) \cup DropEnv({2, 3}) :
        /\ Room(e)
        /\ made < MaxNames
        /\ \E s \in {stop(Self, e)} :
              Done(s, "stop", NoArray, "none", NoRadius, NoPath)

CloseConnection ==
    /\ Ready
    /\ \E s \in {close_connection(Self)} :
        Done(s, "close_connection", NoArray, "none", NoRadius, NoPath)

\* between two calls: the caller has taken the outcome of the last one
Idle ==
    [op |-> "idle", pre |-> "idle", exc |-> "none", msg |-> <<>>, ret |-> NoPath,
     listing |-> <<>>, tmp |-> <<>>, up |-> <<>>, buf |-> NoArray, kind |-> "none",
     radius |-> NoRadius, path |-> NoPath]

\* the call returns to the caller (or its exception reaches it); the log is the next
\* call's from here on
Return ==
    /\ last.op # "idle"
    /\ last' = Idle
    /\ calls' = <<>>
    /\ UNCHANGED <<ssh, sftp, cl, ch, nextId, tmpfiles, made, dirExists, files, viewers,
                   cfg, mask>>

\* the network: the transport of the session's connection dies between two operations
GoStale ==
    /\ Ready
    /\ ssh # None
    /\ cl[ssh] = "active"
    /\ cl' = [cl EXCEPT ![ssh] = "stale"]
    /\ UNCHANGED <<ssh, sftp, ch, nextId, tmpfiles, made, dirExists, files, viewers,
                   last, calls, cfg, mask>>

\* the device: another process writes a *.bmp into the remote directory, with any
\* modification time (a copy that keeps its time, a clock that was set back)
ForeignWrite ==
    /\ Ready
    /\ dirExists
    /\ \E t \in {0, MaxNames + 1} :
          /\ files[ForeignName] # t
          /\ files' = [files EXCEPT ![ForeignName] = t]
    /\ UNCHANGED <<ssh, sftp, cl, ch, nextId, tmpfiles, made, dirExists, viewers,
                   last, calls, cfg, mask>>

Next ==
    \/ SendImage
    \/ PresetMask
    \/ ShowImage
    \/ CloseImage
    \/ FlushRemoteImages
    \/ ListRemoteImages
    \/ Stop
    \/ CloseConnection
    \/ Return
    \/ GoStale
    \/ ForeignWrite

Spec == Init /\ [][Next]_vars

-----------------------------------------------------------------------------
(* The Mask Generator on its own: a session of any small configuration, and the    *)
(* requests a caller makes to generate_mask one after the other                    *)

MaskConfigs ==
    {[width |-> w, height |-> h, pitch_um |-> p] :
        w \in 1..MaxDim, h \in 1..MaxDim, p \in 1..MaxPitch}

MaskRequests ==
    {<<k, NoRadius>> : k \in {"white", "black", "grid", "circle", "unknown"}}
        \cup {<<"circle", <<r>> >> : r \in (-MaxRadius)..MaxRadius}

InitMask ==
    /\ \E c \in MaskConfigs : Constructed(c, TRUE, 0)
    /\ mask = NoMask

GenerateMask ==
    /\ \E q \in MaskRequests :
          mask' = [kind |-> q[1], radius |-> q[2], out |-> generate_mask(cfg, q[1], q[2]),
                   prevKind |-> mask.kind, prevRadius |-> mask.radius,
                   prevOut |-> mask.out]
    /\ UNCHANGED <<ssh, sftp, cl, ch, nextId, tmpfiles, made, dirExists, files, viewers,
                   last, calls, cfg>>

NextMask == GenerateMask

SpecMask == InitMask /\ [][NextMask]_vars

-----------------------------------------------------------------------------
(* The grid of the Mask Generator: sessions whose sides lie at and next to the     *)
(* multiples of the tile side                                                      *)

GridDims == {d \in 1..(MaxTiles * cell + 1) : d % cell \in {0, 1, cell - 1}}

GridConfigs == {[width |-> w, height |-> h, pitch_um |-> 1] : w \in GridDims, h \in GridDims}

GridRequests == {<<"grid", NoRadius>>, <<"white", NoRadius>>, <<"black", NoRadius>>}

InitGrid ==
    /\ \E c \in GridConfigs : Constructed(c, TRUE, 0)
    /\ mask = NoMask

GenerateGrid ==
    /\ \E q \in GridRequests :
          mask' = [kind |-> q[1], radius |-> q[2], out |-> generate_mask(cfg, q[1], q[2]),
                   prevKind |-> "none", prevRadius |-> NoRadius,
                   prevOut |-> [exc |-> "none", arr |-> NoArray]]
    /\ UNCHANGED <<ssh, sftp, cl, ch, nextId, tmpfiles, made, dirExists, files, viewers,
                   last, calls, cfg>>

NextGrid == GenerateGrid

SpecGrid == InitGrid /\ [][NextGrid]_vars

-----------------------------------------------------------------------------
(* Reading the log of the last operation *)

\* the positions of the calls of kind k
At(k) == {i \in DOMAIN calls : calls[i].k = k}

\* the name of the remote file a path names
NameOf(path) == CHOOSE n \in AllNames : Path(n) = path

\* the *.bmp files of the remote directory
Listed == {n \in AllNames : files[n] # NoFile}

\* the operations that talk to the device
DeviceOps == {"send_image", "preset_mask", "show_image", "close_image",
              "flush_remote_images", "_get_latest_remote_list", "stop"}

\* the exceptions a connection attempt raises
ConnectionErrors == {"ConnectError", "SSHException"}

White(out) == Cardinality({p \in DOMAIN out.arr.px : out.arr.px[p] = 255})

-----------------------------------------------------------------------------
(* Claims *)

\* C1 (as stated): a buffer that send_image rejects makes it fail before any network
\* call, whatever the session state: the log of the call is empty.
C1_RejectedBeforeAnyNetworkCall ==
    (last.op = "send_image" /\ Validate(cfg, last.buf) # "none") => calls = <<>>

\* C2 (as stated): a stop() that returns has issued exactly one display command, for the
\* all-black file this stop() uploaded, after the upload, which is after the
\* viewer-terminate command.
C2_StopOneDisplayOfFreshBlack ==
    (last.op = "stop" /\ last.exc = "none") =>
        /\ Cardinality(At("feh")) = 1
        /\ Len(last.up) = 1
        /\ \A p \in DOMAIN last.up[1].px : last.up[1].px[p] = 0
        /\ \A i \in At("feh") : calls[i].arg = Path(last.up[1].name)
        /\ \A i \in At("pkill"), j \in At("put"), k \in At("feh") : i < j /\ j < k

\* C3 (as stated): on every exit from send_image the temporary file the call created
\* is gone from the local temporary directory.
C3_TempFileAlwaysRemoved ==
    last.op = "send_image" => \A i \in DOMAIN last.tmp : last.tmp[i] \notin tmpfiles

\* C4 (as stated): the session holds a control channel and a transfer channel of the
\* same connection, or neither.
C4_ChannelsPaired ==
    /\ (ssh = None) <=> (sftp = None)
    /\ ssh # None => sftp = ssh

\* C5: every remote command and transfer request of a device operation goes over a
\* connection that _connect found active (or opened) in this operation, and an
\* operation that finds the session closed, stale or unconnected issues a connect
\* before anything else.
C5_ConnectedFirst ==
    last.op \in DeviceOps =>
        /\ \A i \in DOMAIN calls :
              calls[i].k \notin {"connect", "open_sftp"} => calls[i].checked
        /\ (last.pre # "active" /\ calls # <<>>) => calls[1].k = "connect"

\* a flush that found the session closed has opened a connection and sent rm over it
C5_Witness ==
    /\ last.op = "flush_remote_images"
    /\ last.pre = "closed"
    /\ Len(calls) = 4
    /\ calls[1].k = "connect"
    /\ calls[4].k = "rm"
    /\ calls[4].checked

\* C6: close_connection raises nothing, issues nothing, leaves self.ssh and self.sftp
\* None with the channels they named closed; on a disconnected session it changes
\* nothing.
C6_CloseDisconnects ==
    [][last'.op = "close_connection" =>
        /\ ssh' = None
        /\ sftp' = None
        /\ last'.exc = "none"
        /\ calls' = <<>>
        /\ ssh # None => cl'[ssh] = "closed"
        /\ sftp # None => ch'[sftp] # "open"
        /\ (ssh = None /\ sftp = None) =>
              UNCHANGED <<ssh, sftp, cl, ch, nextId, tmpfiles, made, dirExists, files,
                          viewers, cfg>>]_vars

\* close_connection has run on a session that was already disconnected
C6_Witness ==
    /\ last.op = "close_connection"
    /\ last.pre = "closed"
    /\ ssh = None
    /\ sftp = None
    /\ \E i \in Clients : cl[i] = "closed" /\ ch[i] = "closed"

\* C7: show_image() without a path lists the remote files newest first and displays
\* the first entry; with an empty listing it raises FileNotFoundError and displays
\* nothing; show_image(path) displays exactly that path and lists nothing.
C7_ShowPicksNewestOrGivenPath ==
    (last.op = "show_image" /\ last.exc \notin ConnectionErrors) =>
        IF last.path = NoPath
        THEN /\ Cardinality(At("ls")) = 1
             /\ Len(last.listing) = Cardinality(Listed)
             /\ \A i \in DOMAIN last.listing : NameOf(last.listing[i]) \in Listed
             /\ \A i, j \in DOMAIN last.listing :
                   i < j => files[NameOf(last.listing[i])] >= files[NameOf(last.listing[j])]
             /\ Listed = {} => (last.exc = "FileNotFoundError" /\ At("feh") = {})
             /\ Listed # {} =>
                   /\ last.exc = "none"
                   /\ Cardinality(At("feh")) = 1
                   /\ \A i \in At("feh") :
                         /\ calls[i].arg = last.listing[1]
                         /\ \A j \in At("ls") : j < i
        ELSE /\ At("ls") = {}
             /\ last.exc = "none"
             /\ Cardinality(At("feh")) = 1
             /\ \A i \in At("feh") : calls[i].arg = last.path

\* show_image() has displayed the newest of two files of different age
C7_Witness ==
    /\ last.op = "show_image"
    /\ last.path = NoPath
    /\ last.exc = "none"
    /\ Len(last.listing) = 2
    /\ files[NameOf(last.listing[1])] > files[NameOf(last.listing[2])]
    /\ \E i \in At("feh") : calls[i].arg = last.listing[1]

\* C8: flush_remote_images raises RuntimeError, carrying the remote stderr text
\* (stripped), exactly when rm exits nonzero; no other operation raises it, and an
\* operation whose display, viewer-terminate or cursor-warp command exits nonzero
\* ends as it would have with exit status zero.
C8_OnlyFlushSurfacesExitStatus ==
    /\ last.op = "flush_remote_images" =>
          \A i \in At("rm") :
              /\ (last.exc = "RuntimeError") <=> (calls[i].rc # 0)
              /\ calls[i].rc # 0 =>
                    last.msg = <<"Failed to flush remote images: ">> \o Strip(calls[i].err)
              /\ calls[i].rc = 0 => last.exc = "none"
    /\ (last.op = "flush_remote_images" /\ At("rm") = {}) => last.exc \in ConnectionErrors
    /\ last.op # "flush_remote_images" => last.exc # "RuntimeError"
    /\ (last.op = "show_image" /\ At("feh") # {}) => last.exc = "none"
    /\ (last.op = "close_image" /\ At("pkill") # {}) => last.exc = "none"
    /\ (last.op = "_get_latest_remote_list" /\ At("move_cursor") # {}) => last.exc = "none"

\* a flush whose rm exited nonzero with a stderr text in whitespace has raised
C8_Witness ==
    /\ last.op = "flush_remote_images"
    /\ last.exc = "RuntimeError"
    /\ last.msg = <<"Failed to flush remote images: ", "e">>
    /\ \E i \in At("rm") : calls[i].rc # 0 /\ calls[i].err = <<" ", "e", "\n">>

\* a display command that exited nonzero, on a connection whose cursor warp exited
\* nonzero too, and show_image returned normally
C8_BestEffortWitness ==
    /\ last.op = "show_image"
    /\ last.exc = "none"
    /\ \E i \in At("feh") : calls[i].rc # 0
    /\ \E i \in At("move_cursor") : calls[i].rc # 0

\* C9 (as stated): preset_mask returns the remote path of the file it uploaded.
C9_PresetReturnsUploadedPath ==
    (last.op = "preset_mask" /\ last.exc = "none") =>
        /\ Len(last.up) = 1
        /\ last.ret = Path(last.up[1].name)

\* the pixel radius the claim gives: the radius divided by the pitch, truncated
C10_rpx(r) == IF r >= 0 THEN r \div cfg.pitch_um ELSE -((-r) \div cfg.pitch_um)

\* the circle generate_mask returned is the disc of that pixel radius around
\* (height div 2, width div 2), and with radius 0 only the centre is white
C10_Disc(m) ==
    (m.kind = "circle" /\ m.radius # NoRadius) =>
        LET r == C10_rpx(m.radius[1])
            cy == cfg.height \div 2
            cx == cfg.width \div 2
        IN  /\ m.out.exc = "none"
            /\ DOMAIN m.out.arr.px = Px(cfg.height, cfg.width)
            /\ \A p \in Px(cfg.height, cfg.width) :
                  m.out.arr.px[p] =
                     IF (p[1] - cy) * (p[1] - cy) + (p[2] - cx) * (p[2] - cx) <= r * r
                     THEN 255 ELSE 0
            /\ m.radius[1] = 0 =>
                  {p \in Px(cfg.height, cfg.width) : m.out.arr.px[p] = 255} = {<<cy, cx>>}

\* two circle requests in a row
C10_TwoCircles ==
    /\ mask.kind = "circle" /\ mask.radius # NoRadius
    /\ mask.prevKind = "circle" /\ mask.prevRadius # NoRadius

\* C10 (as stated): the disc, the single centre pixel for radius 0, and for any two
\* radii r1 <= r2, negative ones included, at least as many white pixels for r2.
C10_Original ==
    /\ C10_Disc([kind |-> mask.kind, radius |-> mask.radius, out |-> mask.out])
    /\ (C10_TwoCircles /\ mask.prevRadius[1] <= mask.radius[1]) =>
          White(mask.prevOut) <= White(mask.out)

\* C10 (amended): the disc, the single centre pixel for radius 0, and for any two
\* radii 0 <= r1 <= r2 at least as many white pixels for r2.
C10_CircleDiscAndMonotoneFromZero ==
    /\ C10_Disc([kind |-> mask.kind, radius |-> mask.radius, out |-> mask.out])
    /\ (C10_TwoCircles /\ 0 <= mask.prevRadius[1] /\ mask.prevRadius[1] <= mask.radius[1]) =>
          White(mask.prevOut) <= White(mask.out)

\* a radius below the pitch, which truncates to pixel radius 0, has been followed by a
\* larger radius that paints more than the centre and less than the whole array
C10_Witness ==
    /\ C10_TwoCircles
    /\ cfg.pitch_um > 1
    /\ mask.prevRadius[1] > 0
    /\ mask.prevRadius[1] < mask.radius[1]
    /\ White(mask.prevOut) = 1
    /\ White(mask.out) > 1
    /\ White(mask.out) < cfg.width * cfg.height

\* C11: generate_mask("grid") returns an array of the configured shape in which pixel
\* (y, x) is 255 iff (x div 32 + y div 32) is even and 0 otherwise, also when a side is
\* no multiple of 32: the tiles at the edge are clipped, none wraps or is left out.
C11_GridParityPerPixel ==
    mask.kind = "grid" =>
        /\ mask.out.exc = "none"
        /\ mask.out.arr.shape = <<cfg.height, cfg.width>>
        /\ DOMAIN mask.out.arr.px = Px(cfg.height, cfg.width)
        /\ \A p \in Px(cfg.height, cfg.width) :
              mask.out.arr.px[p] =
                 IF ((p[2] \div 32) + (p[1] \div 32)) % 2 = 0 THEN 255 ELSE 0

\* a grid of 33 rows and 65 columns: tile (0,0) white, tile (1,0) black, tile (1,1)
\* white in its one row, and the one-pixel column of the clipped tile (2,0) white
C11_Witness ==
    /\ mask.kind = "grid"
    /\ cfg.height = 33
    /\ cfg.width = 65
    /\ mask.out.arr.px[<<0, 0>>] = 255
    /\ mask.out.arr.px[<<31, 31>>] = 255
    /\ mask.out.arr.px[<<0, 32>>] = 0
    /\ mask.out.arr.px[<<32, 0>>] = 0
    /\ mask.out.arr.px[<<32, 32>>] = 255
    /\ mask.out.arr.px[<<0, 64>>] = 255
    /\ mask.out.arr.px[<<32, 64>>] = 0

\* the cursor warps in a log
C12_Warps(cs) == Cardinality({i \in DOMAIN cs : cs[i].k = "move_cursor"})

\* the connections opened between two states: control channel and transfer channel
C12_Opened(c0, c1) == Cardinality({i \in Clients : c0[i] = "none" /\ c1[i] # "none"})

\* the calls of a connection attempt
C12_Connecting == {"connect", "open_sftp", "move_cursor"}

\* C12: an operation that finds an active control channel which stays active leaves
\* self.ssh, self.sftp and every channel as they are and issues no connect, open_sftp
\* or cursor warp; an operation that finds none, or an inactive one, starts with a
\* connect on a new client, and when control and transfer channel open it installs
\* both and warps the cursor right after. In every operation, the constructor
\* included, the cursor warps issued are as many as the connections opened.
C12_EnsureConnected ==
    /\ last.op = "__init__" =>
          C12_Warps(calls) = Cardinality({i \in Clients : ch[i] # "none"})
    /\ [][last'.op \in DeviceOps =>
            /\ C12_Warps(calls') = C12_Opened(ch, ch')
            /\ \A i \in DOMAIN calls' :
                  calls'[i].k = "move_cursor" =>
                      /\ i >= 3
                      /\ calls'[i - 1].k = "open_sftp" /\ calls'[i - 1].via = calls'[i].via
                      /\ calls'[i - 2].k = "connect" /\ calls'[i - 2].via = calls'[i].via
            /\ (ssh # None /\ cl[ssh] = "active" /\ cl'[ssh] = "active") =>
                  /\ ssh' = ssh /\ sftp' = sftp /\ cl' = cl /\ ch' = ch /\ nextId' = nextId
                  /\ \A i \in DOMAIN calls' : calls'[i].k \notin C12_Connecting
            /\ (ssh = None \/ cl[ssh] # "active") =>
                  \/ last'.op = "preset_mask" /\ last'.exc = "ValueError" /\ calls' = <<>>
                  \/ /\ calls' # <<>>
                     /\ calls'[1].k = "connect"
                     /\ calls'[1].via = nextId + 1
                     /\ ssh' = nextId + 1
                     /\ IF C12_Warps(calls') = 1
                        THEN /\ sftp' = ssh'
                             /\ cl'[ssh'] = "active"
                             /\ ch'[ssh'] = "open"
                             /\ calls'[2].k = "open_sftp"
                             /\ calls'[3].k = "move_cursor"
                        ELSE /\ last'.exc \in ConnectionErrors
                             /\ sftp' = sftp
                             /\ ch' = ch]_vars

\* an operation that found the connection stale has opened a new one and warped the
\* cursor once, and has gone on to its own command
C12_Witness ==
    /\ last.op \in DeviceOps
    /\ last.pre = "stale"
    /\ last.exc = "none"
    /\ Len(calls) >= 4
    /\ calls[1].k = "connect"
    /\ calls[2].k = "open_sftp"
    /\ calls[3].k = "move_cursor"
    /\ C12_Warps(calls) = 1
    /\ ssh = 2
    /\ sftp = 2
    /\ cl[1] = "stale"

\* an operation that found the connection active has issued its command and nothing else
C12_ActiveWitness ==
    /\ last.op = "close_image"
    /\ last.pre = "active"
    /\ Len(calls) = 1
    /\ calls[1].k = "pkill"

\* send_image has run on a buffer its validation accepts
C13_ValidSend == last.op = "send_image" /\ Validate(cfg, last.buf) = "none"

\* at most one stat, one mkdir and one put, in this order; a put only after a stat or a
\* mkdir that succeeded; no mkdir after a stat that succeeded; on success the returned
\* path is the remote directory followed by the name of the uploaded file
C13_OrderAndPath ==
    /\ Cardinality(At("stat")) <= 1
    /\ Cardinality(At("mkdir")) <= 1
    /\ Cardinality(At("put")) <= 1
    /\ \A j \in At("mkdir") : \E i \in At("stat") : i < j
    /\ \A k \in At("put") :
          /\ \E i \in At("stat") : i < k
          /\ \A j \in At("mkdir") : j < k
          /\ \/ \E i \in At("stat") : calls[i].raised = "none"
             \/ \E j \in At("mkdir") : calls[j].raised = "none"
    /\ \A i \in At("stat") : calls[i].raised = "none" => At("mkdir") = {}
    /\ last.exc = "none" =>
          /\ Len(last.up) = 1
          /\ last.ret = remote_path \o FileName(last.up[1].name)
          /\ \E k \in At("put") : calls[k].arg = last.ret /\ calls[k].raised = "none"
          /\ files[last.up[1].name] # NoFile

\* C13 (as stated): for a valid buffer the transfer steps are stat, then mkdir iff the
\* stat failed, then put, with the order and the returned path as above.
C13_Original ==
    C13_ValidSend =>
        /\ C13_OrderAndPath
        /\ \A i \in At("stat") : (At("mkdir") # {}) <=> (calls[i].raised # "none")

\* C13 (amended): mkdir is issued iff the stat raised an I/O error; a stat that fails
\* otherwise ends the call with its error, without mkdir and without put.
C13_StatMkdirPut ==
    C13_ValidSend =>
        /\ C13_OrderAndPath
        /\ \A i \in At("stat") :
              /\ (At("mkdir") # {}) <=> (calls[i].raised = "IOError")
              /\ calls[i].raised \notin {"none", "IOError"} =>
                    /\ last.exc = calls[i].raised
                    /\ At("mkdir") = {}
                    /\ At("put") = {}

\* a valid buffer sent when the remote directory was missing: stat raised, mkdir
\* created the directory, put uploaded the file and its path was returned
C13_Witness ==
    /\ C13_ValidSend
    /\ last.exc = "none"
    /\ \E i \in At("stat"), j \in At("mkdir"), k \in At("put") :
          /\ i < j /\ j < k
          /\ calls[i].raised = "IOError"
          /\ calls[j].raised = "none"
          /\ calls[k].arg = last.ret
    /\ last.ret # NoPath

\* a valid buffer whose stat was cut off by the connection: no mkdir, no put
C13_CutOffWitness ==
    /\ C13_ValidSend
    /\ last.exc = "SSHException"
    /\ \E i \in At("stat") : calls[i].raised = "SSHException"
    /\ At("mkdir") = {}
    /\ At("put") = {}

\* C14 (as stated): a preset_mask that returns has uploaded the mask it generated and
\* has issued one display command, after the upload, for the file it uploaded,
\* whatever else is in the remote directory.
C14_PresetDisplaysItsUpload ==
    (last.op = "preset_mask" /\ last.exc = "none") =>
        /\ Len(last.up) = 1
        /\ last.up[1].px = generate_mask(cfg, last.kind, last.radius).arr.px
        /\ Cardinality(At("feh")) = 1
        /\ \A i \in At("feh") :
              /\ calls[i].arg = Path(last.up[1].name)
              /\ \A k \in At("put") : k < i

\* C15 (as stated): show_image sends the viewer-terminate command before its display
\* command, and at most one viewer launched by the client runs on the device.
C15_OneViewer ==
    /\ viewers <= 1
    /\ last.op = "show_image" =>
          \A i \in At("feh") : \E j \in At("pkill") : j < i

\* the connections of the session that are alive, and the transfer channels on them
C16_LiveControl == {i \in Clients : cl[i] = "active"}
C16_LiveTransfer == {i \in Clients : cl[i] = "active" /\ ch[i] = "open"}

\* C16: whatever was reconnected, at most one control channel of the session is alive
\* and it is self.ssh, at most one transfer channel is alive and it is self.sftp: a
\* connection is replaced only when it is dead or was never opened, so the channels of
\* a replaced connection are gone when the new ones are installed.
C16_ReplacedNotPooled ==
    /\ Cardinality(C16_LiveControl) <= 1
    /\ \A i \in C16_LiveControl : ssh = i
    /\ Cardinality(C16_LiveTransfer) <= 1
    /\ \A i \in C16_LiveTransfer : sftp = i
    /\ \A i \in Clients : (i # ssh /\ cl[i] # "unused") => cl[i] \in {"stale", "closed", "unconnected"}

\* the session has reconnected after its first connection went stale
C16_Witness ==
    /\ nextId = 2
    /\ cl[1] = "stale"
    /\ ch[1] = "open"
    /\ cl[2] = "active"
    /\ ch[2] = "open"
    /\ ssh = 2
    /\ sftp = 2

\* the requests generate_mask accepts
C17_Accepted ==
    \/ mask.kind \in {"white", "black", "grid"}
    \/ mask.kind = "circle" /\ mask.radius # NoRadius

\* C17: for an accepted request generate_mask returns a uint8 array of shape
\* (height, width), which the validation of send_image accepts; white is all 255 and
\* black all 0; circle without a radius and an unknown kind raise ValueError and
\* return no array.
C17_MaskShapeAndErrors ==
    /\ C17_Accepted =>
          /\ mask.out.exc = "none"
          /\ mask.out.arr.isArray
          /\ mask.out.arr.dtype = "uint8"
          /\ mask.out.arr.shape = <<cfg.height, cfg.width>>
          /\ DOMAIN mask.out.arr.px = Px(cfg.height, cfg.width)
          /\ \A p \in Px(cfg.height, cfg.width) : mask.out.arr.px[p] \in 0..255
          /\ Validate(cfg, mask.out.arr) = "none"
    /\ mask.kind = "white" => \A p \in Px(cfg.height, cfg.width) : mask.out.arr.px[p] = 255
    /\ mask.kind = "black" => \A p \in Px(cfg.height, cfg.width) : mask.out.arr.px[p] = 0
    /\ (mask.kind # "none" /\ ~C17_Accepted) =>
          /\ mask.out.exc = "ValueError"
          /\ mask.out.arr = NoArray

\* a circle with a radius on a session that is not square
C17_Witness ==
    /\ mask.kind = "circle"
    /\ mask.radius # NoRadius
    /\ cfg.width # cfg.height
    /\ mask.out.exc = "none"
    /\ mask.out.arr.shape = <<cfg.height, cfg.width>>
    /\ Validate(cfg, mask.out.arr) = "none"

\* a circle without a radius after an unknown kind: both raised
C17_ErrorWitness ==
    /\ mask.kind = "circle"
    /\ mask.radius = NoRadius
    /\ mask.out.exc = "ValueError"
    /\ mask.prevKind = "unknown"
    /\ mask.prevOut.exc = "ValueError"

====
